---- MODULE Spec2Model ----
(***************************************************************************)
(* Model of buildscripts/resmokelib/testing/hooks/initialsync.py:          *)
(* the BackgroundInitialSync hook (the Continuous-Sync Monitor) and its    *)
(* BackgroundInitialSyncTestCase.run_test, stepped at every call the hook  *)
(* makes to the initial sync node or to the validation test, while the     *)
(* node changes its replication state on its own.                          *)
(***************************************************************************)
EXTENDS Integers, Sequences, FiniteSets, TLC

VARIABLES
    n,                      \* hook.n
    use_resync,             \* hook.use_resync
    tests_run,              \* hook.tests_run
    random_restarts,        \* hook.random_restarts
    pc,                     \* position of the harness/hook thread
    nodeState,              \* replication state of the initial sync node
    state,                  \* run_test's local `state` (result of replSetGetStatus)
    waited,                 \* result of the waitForMemberState command
    validation,             \* result of self._js_test.run_test()
    cycle,                  \* call site of __restart_init_sync active in this invocation
    restart,                \* how that __restart_init_sync call stands
    calls,                  \* commands issued to the node/validator in this invocation
    outcome,                \* how run_test ended: returned, or the exception raised
    failures,               \* exceptions that left run_test in this invocation
    fired,                  \* the `tests_run >= n` branch was taken in this invocation
    entry_tests_run,        \* tests_run when after_test was entered
    entry_random_restarts,  \* random_restarts when after_test was entered
    windowInjects,          \* random restarts begun since SECONDARY was last seen
    run,                    \* what happened since __init__: after_test calls, answers, cycles
    variant,                \* class of the hook: BackgroundInitialSync or IntermediateInitialSync
    args,                   \* arguments given to the hook's __init__
    \* buildscripts/prune_check.py
    clock,                  \* datetime.utcnow(), in ticks
    stampFile,              \* the last_prune_time file: <<>> if absent, else <<seconds>>
    prune_seconds,          \* args.prune_seconds
    prune_pc,               \* position of the prune_check.py process
    prune_now,              \* check_last_prune_time's `now`
    prune_last,             \* check_last_prune_time's `last_prune_time`
    exit_code,              \* sys.exit code of the last run, -1 before any
    stampAtStart,           \* the last_prune_time file when the run started
    last_zero,              \* `now` of the last run that exited with 0, <<>> if none
    zero_gap,               \* ticks between the `now` of the last two such runs
    \* the timestamp API used by test_timestamp09.py
    oldest_timestamp,       \* query_timestamp('get=oldest'), 0 if never set
    stable_timestamp,       \* query_timestamp('get=stable'), 0 if never set
    ts_call,                \* the last set_timestamp call
    ts_result,              \* its result: ok or error
    ts_before,              \* oldest and stable before that call
    ts_read,                \* read_timestamp of the last begin_transaction, 0 if none
    ts_read_result,         \* its result: ok or error
    \* the TagsConfig of buildscripts/tests/ciconfig/test_tags.py
    tags_conf,              \* the tags of every test pattern, as get_tags lists them
    tags_loaded,            \* the same as from_file read them
    tags_log,               \* the last add_tag/remove_tag calls, each with the tags before it
    \* buildscripts/cleanbb.py
    clean_pc,               \* position of the cleanbb.py process
    nokill,                 \* cleanup's `nokill`
    root,                   \* cleanup's `root`
    platform,               \* sys.platform
    cmdline,                \* the command line of every process of the host
    alive,                  \* the processes utils.getprocesslist() would list
    proc_list,              \* killprocs' `l`, the part the loop has not reached
    signal,                 \* killprocs' `signal`
    killed,                 \* killprocs' `killed`
    root_files,             \* the regular files under root
    retrying,               \* the file whose os.remove failed once, 0 if none
    clean_log               \* killprocs calls, kill commands and os.remove calls so far

hookVars == <<n, use_resync, tests_run, random_restarts, pc, nodeState, state, waited,
              validation, cycle, restart, calls, outcome, failures, fired,
              entry_tests_run, entry_random_restarts, windowInjects, run>>

pruneVars == <<clock, stampFile, prune_seconds, prune_pc, prune_now, prune_last,
               exit_code, stampAtStart, last_zero, zero_gap>>

tsVars == <<oldest_timestamp, stable_timestamp, ts_call, ts_result, ts_before,
            ts_read, ts_read_result>>

tagVars == <<tags_conf, tags_loaded, tags_log>>

cleanVars == <<clean_pc, nokill, root, platform, cmdline, alive, proc_list, signal,
               killed, root_files, retrying, clean_log>>

\* what no step of a constructed hook writes
otherVars == <<variant, args, pruneVars, tsVars, tagVars, cleanVars>>

\* what no step of prune_check.py writes
notPruneVars == <<hookVars, variant, args, tsVars, tagVars, cleanVars>>

\* what no call of the timestamp API writes
notTsVars == <<hookVars, variant, args, pruneVars, tagVars, cleanVars>>

\* what no call on a TagsConfig writes
notTagVars == <<hookVars, variant, args, pruneVars, tsVars, cleanVars>>

\* what no step of cleanbb.py writes
notCleanVars == <<hookVars, variant, args, pruneVars, tsVars, tagVars>>

vars == <<hookVars, otherVars>>

\* ---------------------------------------------------------------- bounds
MaxN == 3
MaxWindow == 2
MaxCalls == 7
MaxClock == 8
MaxPruneSeconds == 2
TicksPerSecond == 2
MaxTs == 6
MaxTag == 2
MaxProcs == 2
MaxFiles == 2

\* ------------------------------------------------------------- constants
SECONDARY == "SECONDARY"
NodeStates == {"STARTUP", "STARTUP2", SECONDARY, "OTHER"}
QueryFailures == {"UNAVAILABLE", "OPFAILED"}

Min(a, b) == IF a < b THEN a ELSE b

Count(s, x) == Cardinality({i \in DOMAIN s : s[i] = x})

\* ------------------------------------------------- decisions of run_test
ShouldWaitOff(t, N) == t > N
\* line 73: if self._hook.tests_run >= self._hook.n
ShouldWait(t, N) == t >= N

WaitRaisesNever(w) == FALSE
\* line 83: the command raises when waitForMemberState did not succeed;
\* the call is outside the try block, so the error leaves run_test
WaitRaises(w) == w = "timeout"

CaughtUpLoose(s) == s \in {SECONDARY, "OTHER"}
\* line 90: state != 2 negated
CaughtUp(s) == s = SECONDARY

WaitedInVainNever(t) == FALSE
\* line 91: if self._hook.tests_run == 0
WaitedInVain(t) == t = 0

RandomRestartUncapped(rr, draw) == draw
RandomRestartOffByOne(rr, draw) == rr <= 1 /\ draw
\* line 104: self._hook.random_restarts < 1 and random.random() < 0.2
RandomRestart(rr, draw) == rr < 1 /\ draw

HandledNothing(exc) == FALSE
\* line 111: except pymongo.errors.OperationFailure
Handled(exc) == exc = "OperationFailure"

CountRestartAlways(c, rr) == rr + 1
\* line 109: self._hook.random_restarts += 1, on the random call site only
CountRestart(c, rr) == IF c = "random" THEN rr + 1 ELSE rr

ValidationRaisesNever(passed) == FALSE
\* lines 122, 217: nothing catches what self._js_test.run_test() raises
ValidationRaises(passed) == ~passed

CountedNoReset(t, N) == Min(t + 1, N)
CountedSkips(t, N) == IF ShouldWait(t + 1, N) THEN 0 ELSE t
\* lines 52, 73, 78: tests_run += 1, and tests_run = 0 in the threshold branch
Counted(t, N) == IF ShouldWait(t + 1, N) THEN 0 ELSE t + 1

RestartEntrySwapped(resync) == IF resync THEN "teardown" ELSE "resync"
\* line 129: first step of __restart_init_sync
RestartEntry(resync) == IF resync THEN "resync" ELSE "teardown"

\* no prune_check.py process was ever started
PruneIdle ==
    /\ clock = 0
    /\ stampFile = <<>>
    /\ prune_seconds = 0
    /\ prune_pc = "start"
    /\ prune_now = 0
    /\ prune_last = 0
    /\ exit_code = -1
    /\ stampAtStart = <<>>
    /\ last_zero = <<>>
    /\ zero_gap = <<>>

\* no timestamp was ever set
TsIdle ==
    /\ oldest_timestamp = 0
    /\ stable_timestamp = 0
    /\ ts_call = [oldest |-> 0, stable |-> 0, force |-> FALSE]
    /\ ts_result = "none"
    /\ ts_before = <<0, 0>>
    /\ ts_read = 0
    /\ ts_read_result = "none"

\* the test patterns of one test kind
TagPatterns == {"jstests/core/example.js", "jstests/core/drop.js"}

\* no TagsConfig was loaded
TagsIdle ==
    /\ tags_conf = [p \in TagPatterns |-> <<>>]
    /\ tags_loaded = [p \in TagPatterns |-> <<>>]
    /\ tags_log = <<>>

\* the processes of the host
Pids == 1..MaxProcs

\* cleanbb.py was not started
CleanIdle ==
    /\ clean_pc = "idle"
    /\ nokill = FALSE
    /\ root = ""
    /\ platform = "linux2"
    /\ cmdline = [p \in Pids |-> {}]
    /\ alive = {}
    /\ proc_list = <<>>
    /\ signal = ""
    /\ killed = 0
    /\ root_files = {}
    /\ retrying = 0
    /\ clean_log = <<>>

\* the history of a hook on which after_test was never called
FreshRun ==
    [calls |-> 0, quiet |-> TRUE, coop |-> FALSE, random |-> 0,
     \* the invocation before the current one: did it fire, how did its wait end
     prev |-> [fired |-> FALSE, waited |-> "none"],
     \* after_test calls since a waitForMemberState command was last issued
     sinceWait |-> 0,
     \* random restarts begun since the validation last passed
     sinceValid |-> 0,
     \* random restarts that returned since SECONDARY was last answered
     done |-> 0]

\* -------------------------------------------------------------- initial
Init ==
    /\ n \in 1..MaxN
    /\ use_resync \in BOOLEAN
    /\ tests_run = 0
    /\ random_restarts = 0
    /\ pc = "idle"
    /\ nodeState \in NodeStates
    /\ state = "none"
    /\ waited = "none"
    /\ validation = "none"
    /\ cycle = "none"
    /\ restart = "none"
    /\ calls = <<>>
    /\ outcome = "none"
    /\ failures = 0
    /\ fired = FALSE
    /\ entry_tests_run = 0
    /\ entry_random_restarts = 0
    /\ windowInjects = 0
    /\ run = FreshRun
    /\ variant = "BackgroundInitialSync"
    /\ args = [fixture |-> "ReplicaSetFixture", use_resync |-> use_resync, n |-> n]
    /\ PruneIdle
    /\ TsIdle
    /\ TagsIdle
    /\ CleanIdle

\* ------------------------------------------------------ ending run_test
\* run_test returns normally to after_test
Return ==
    /\ pc' = "idle"
    /\ outcome' = "returned"
    /\ UNCHANGED failures

\* an exception leaves run_test and after_test
Raise(exc) ==
    /\ pc' = "idle"
    /\ outcome' = exc
    /\ failures' = failures + 1

\* ------------------------------------------------------------- actions
\* after_test increments tests_run and run_test takes the threshold branch
after_test ==
    /\ pc = "idle"
    /\ variant = "BackgroundInitialSync"
    /\ entry_tests_run' = tests_run
    /\ entry_random_restarts' = random_restarts
    /\ state' = "none"
    /\ waited' = "none"
    /\ validation' = "none"
    /\ cycle' = "none"
    /\ restart' = "none"
    /\ calls' = <<>>
    /\ outcome' = "running"
    /\ failures' = 0
    /\ tests_run' = Counted(tests_run, n)
    /\ IF ShouldWait(tests_run + 1, n)
          THEN /\ fired' = TRUE
               /\ pc' = "wait"
          ELSE /\ fired' = FALSE
               /\ pc' = "query"
    /\ run' = [run EXCEPT !.calls = Min(@ + 1, MaxCalls),
                          !.prev = [fired |-> fired, waited |-> waited],
                          !.sinceWait = Min(@ + 1, MaxCalls)]
    /\ UNCHANGED <<n, use_resync, random_restarts, nodeState, windowInjects>>
    /\ UNCHANGED otherVars

\* the replSetTest waitForMemberState command, bounded by 20 minutes
wait_for_secondary ==
    /\ pc = "wait"
    /\ calls' = Append(calls, "waitForMemberState")
    /\ waited' = IF nodeState = SECONDARY THEN "ok" ELSE "timeout"
    /\ IF WaitRaises(waited')
          THEN Raise("OperationFailure")
          ELSE /\ pc' = "query"
               /\ UNCHANGED <<outcome, failures>>
    /\ run' = [run EXCEPT !.sinceWait = 0]
    /\ UNCHANGED <<n, use_resync, tests_run, random_restarts, nodeState, state,
                   validation, cycle, restart, fired, entry_tests_run,
                   entry_random_restarts, windowInjects>>
    /\ UNCHANGED otherVars

\* what replSetGetStatus can answer for a node in state ns
StatusAnswers(ns) ==
    (IF ns = "STARTUP" THEN {"UNAVAILABLE"} ELSE {}) \cup {ns, "OPFAILED"}

\* the replSetGetStatus command and the branches that depend on it
get_status ==
    /\ pc = "query"
    /\ calls' = Append(calls, "replSetGetStatus")
    /\ \E answer \in StatusAnswers(nodeState), draw \in BOOLEAN :
          /\ state' = answer
          /\ run' = [run EXCEPT
                        !.quiet = @ /\ answer \in NodeStates \ {SECONDARY},
                        !.random = IF /\ answer \in NodeStates
                                      /\ ~CaughtUp(answer)
                                      /\ ~WaitedInVain(tests_run)
                                      /\ RandomRestart(random_restarts, draw)
                                      THEN Min(@ + 1, MaxWindow) ELSE @,
                        !.sinceValid = IF /\ answer \in NodeStates
                                          /\ ~CaughtUp(answer)
                                          /\ ~WaitedInVain(tests_run)
                                          /\ RandomRestart(random_restarts, draw)
                                          THEN Min(@ + 1, MaxWindow) ELSE @,
                        !.done = IF answer \in NodeStates /\ CaughtUp(answer)
                                    THEN 0 ELSE @]
          /\ IF answer \in QueryFailures
                THEN \* the command raised OperationFailure
                     /\ IF Handled("OperationFailure")
                           THEN Return
                           ELSE Raise("OperationFailure")
                     /\ UNCHANGED <<random_restarts, cycle, restart, windowInjects>>
                ELSE IF ~CaughtUp(answer)
                THEN IF WaitedInVain(tests_run)
                        THEN /\ Raise("TestFailure")
                             /\ UNCHANGED <<random_restarts, cycle, restart, windowInjects>>
                        ELSE IF RandomRestart(random_restarts, draw)
                        THEN /\ cycle' = "random"
                             /\ restart' = "running"
                             /\ windowInjects' = Min(windowInjects + 1, MaxWindow)
                             /\ pc' = RestartEntry(use_resync)
                             /\ UNCHANGED <<random_restarts, outcome, failures>>
                        ELSE /\ Return
                             /\ UNCHANGED <<random_restarts, cycle, restart, windowInjects>>
                ELSE /\ random_restarts' = 0
                     /\ windowInjects' = 0
                     /\ pc' = "validate"
                     /\ UNCHANGED <<cycle, restart, outcome, failures>>
    /\ UNCHANGED <<n, use_resync, tests_run, nodeState, waited, validation, fired,
                   entry_tests_run, entry_random_restarts>>
    /\ UNCHANGED otherVars

\* self._js_test.run_test(): data validation and dbhash checking
run_validation ==
    /\ pc = "validate"
    /\ calls' = Append(calls, "validate")
    /\ \E passed \in BOOLEAN :
          IF ~ValidationRaises(passed)
             THEN /\ validation' = IF passed THEN "passed" ELSE "failed"
                  /\ run' = [run EXCEPT !.coop = TRUE, !.sinceValid = 0]
                  /\ cycle' = "coop"
                  /\ restart' = "running"
                  /\ pc' = RestartEntry(use_resync)
                  /\ UNCHANGED <<outcome, failures>>
             ELSE /\ validation' = "failed"
                  /\ Raise("ValidatorFailure")
                  /\ UNCHANGED <<cycle, restart, run>>
    /\ UNCHANGED <<n, use_resync, tests_run, random_restarts, nodeState, state,
                   waited, fired, entry_tests_run, entry_random_restarts,
                   windowInjects>>
    /\ UNCHANGED otherVars

RestartFallsThrough ==
    /\ random_restarts' = CountRestart(cycle, random_restarts)
    /\ restart' = "returned"
    /\ run' = [run EXCEPT !.done = IF cycle = "random"
                                      THEN Min(@ + 1, MaxWindow) ELSE @]
    /\ IF cycle = "random"
          THEN /\ pc' = "validate"
               /\ UNCHANGED <<outcome, failures>>
          ELSE Return
\* __restart_init_sync returned to its call site
RestartReturned ==
    /\ random_restarts' = CountRestart(cycle, random_restarts)
    /\ restart' = "returned"
    /\ run' = [run EXCEPT !.done = IF cycle = "random"
                                      THEN Min(@ + 1, MaxWindow) ELSE @]
    /\ Return

\* __restart_init_sync raised exc at its call site
RestartRaised(exc) ==
    /\ UNCHANGED random_restarts
    /\ restart' = "raised"
    /\ UNCHANGED run
    /\ IF cycle = "random" /\ Handled(exc)
          THEN Return
          ELSE Raise(exc)

\* __restart_init_sync with use_resync: the resync command
resync ==
    /\ pc = "resync"
    /\ calls' = Append(calls, "resync")
    /\ \E ok \in BOOLEAN :
          IF ok THEN RestartReturned ELSE RestartRaised("OperationFailure")
    /\ UNCHANGED <<n, use_resync, tests_run, nodeState, state, waited, validation,
                   cycle, fired, entry_tests_run, entry_random_restarts,
                   windowInjects>>
    /\ UNCHANGED otherVars

\* __restart_init_sync without use_resync: sync_node.teardown()
teardown ==
    /\ pc = "teardown"
    /\ calls' = Append(calls, "teardown")
    /\ \E ok \in BOOLEAN :
          IF ok THEN /\ pc' = "setup"
                     /\ UNCHANGED <<random_restarts, restart, outcome, failures>>
                ELSE RestartRaised("ServerFailure")
    /\ UNCHANGED <<n, use_resync, tests_run, nodeState, state, waited, validation,
                   cycle, fired, entry_tests_run, entry_random_restarts,
                   windowInjects, run>>
    /\ UNCHANGED otherVars

setup_unready ==
    /\ pc = "setup"
    /\ calls' = Append(calls, "setup")
    /\ \E ok \in BOOLEAN :
          IF ok THEN RestartReturned ELSE RestartRaised("ServerFailure")
    /\ UNCHANGED <<n, use_resync, tests_run, nodeState, state, waited, validation,
                   cycle, fired, entry_tests_run, entry_random_restarts,
                   windowInjects>>
    /\ UNCHANGED otherVars
\* sync_node.setup()
setup ==
    /\ pc = "setup"
    /\ calls' = Append(calls, "setup")
    /\ \E ok \in BOOLEAN :
          IF ok THEN /\ pc' = "await_ready"
                     /\ UNCHANGED <<random_restarts, restart, outcome, failures>>
                ELSE RestartRaised("ServerFailure")
    /\ UNCHANGED <<n, use_resync, tests_run, nodeState, state, waited, validation,
                   cycle, fired, entry_tests_run, entry_random_restarts,
                   windowInjects, run>>
    /\ UNCHANGED otherVars

\* sync_node.await_ready()
await_ready ==
    /\ pc = "await_ready"
    /\ calls' = Append(calls, "await_ready")
    /\ \E ok \in BOOLEAN :
          IF ok THEN RestartReturned ELSE RestartRaised("ServerFailure")
    /\ UNCHANGED <<n, use_resync, tests_run, nodeState, state, waited, validation,
                   cycle, fired, entry_tests_run, entry_random_restarts,
                   windowInjects>>
    /\ UNCHANGED otherVars

\* the node changes its replication state on its own, at any time
NodeChange ==
    /\ nodeState' \in NodeStates \ {nodeState}
    /\ UNCHANGED <<n, use_resync, tests_run, random_restarts, pc, state, waited,
                   validation, cycle, restart, calls, outcome, failures, fired,
                   entry_tests_run, entry_random_restarts, windowInjects, run>>
    /\ UNCHANGED otherVars

Next ==
    \/ after_test
    \/ wait_for_secondary
    \/ get_status
    \/ run_validation
    \/ resync
    \/ teardown
    \/ setup
    \/ await_ready
    \/ NodeChange

Spec == Init /\ [][Next]_vars

\* ======================================================================
\* IntermediateInitialSync (the Periodic-Sync Driver) and the constructors
\* of both hooks
\* ======================================================================
Variants == {"BackgroundInitialSync", "IntermediateInitialSync"}
Fixtures == {"ReplicaSetFixture", "MasterSlaveFixture"}

ValidFixtureAny(f) == TRUE
\* lines 38, 155: isinstance(fixture, replicaset.ReplicaSetFixture)
ValidFixture(f) == f = "ReplicaSetFixture"

ShouldRunOff(t, N) == ~(t <= N)
\* line 170: if self.tests_run < self.n: return False
ShouldRun(t, N) == ~(t < N)

IntermediateEntryValidateFirst(r) == "i_validate"
\* lines 198-207: run_test starts with the resync command or the teardown
IntermediateEntry(r) == IF r THEN "i_resync" ELSE "i_teardown"

AfterWaitValidates(w) == "i_validate"
\* lines 214-217: the validation follows a wait command that returned
AfterWait(w) == IF WaitRaises(w) THEN "raise" ELSE "i_validate"

\* before __init__ ran: no attribute of the hook exists
InitHooks ==
    /\ variant \in Variants
    /\ args \in [fixture : Fixtures, use_resync : BOOLEAN, n : 1..MaxN]
    /\ PruneIdle
    /\ TsIdle
    /\ TagsIdle
    /\ CleanIdle
    /\ n = "unset"
    /\ use_resync = "unset"
    /\ tests_run = "unset"
    /\ random_restarts = "unset"
    /\ pc = "new"
    /\ nodeState \in NodeStates
    /\ state = "none"
    /\ waited = "none"
    /\ validation = "none"
    /\ cycle = "none"
    /\ restart = "none"
    /\ calls = <<>>
    /\ outcome = "none"
    /\ failures = 0
    /\ fired = FALSE
    /\ entry_tests_run = 0
    /\ entry_random_restarts = 0
    /\ windowInjects = 0
    /\ run = FreshRun

\* BackgroundInitialSync.__init__
background_init ==
    /\ pc = "new"
    /\ variant = "BackgroundInitialSync"
    /\ IF ValidFixture(args.fixture)
          THEN /\ use_resync' = args.use_resync
               /\ n' = args.n
               /\ tests_run' = 0
               /\ random_restarts' = 0
               /\ pc' = "idle"
          ELSE /\ pc' = "ValueError"
               /\ UNCHANGED <<use_resync, n, tests_run, random_restarts>>
    /\ UNCHANGED <<nodeState, state, waited, validation, cycle, restart, calls,
                   outcome, failures, fired, entry_tests_run,
                   entry_random_restarts, windowInjects, run>>
    /\ UNCHANGED otherVars

\* IntermediateInitialSync.__init__
intermediate_init ==
    /\ pc = "new"
    /\ variant = "IntermediateInitialSync"
    /\ IF ValidFixture(args.fixture)
          THEN /\ use_resync' = args.use_resync
               /\ n' = args.n
               /\ tests_run' = 0
               /\ pc' = "idle"
          ELSE /\ pc' = "ValueError"
               /\ UNCHANGED <<use_resync, n, tests_run>>
    /\ UNCHANGED <<random_restarts, nodeState, state, waited, validation, cycle,
                   restart, calls, outcome, failures, fired, entry_tests_run,
                   entry_random_restarts, windowInjects, run>>
    /\ UNCHANGED otherVars

\* IntermediateInitialSync.after_test with _should_run_after_test
intermediate_after_test ==
    /\ pc = "idle"
    /\ variant = "IntermediateInitialSync"
    /\ entry_tests_run' = tests_run
    /\ state' = "none"
    /\ waited' = "none"
    /\ validation' = "none"
    /\ calls' = <<>>
    /\ failures' = 0
    /\ IF ShouldRun(tests_run + 1, n)
          THEN /\ tests_run' = 0
               /\ fired' = TRUE
               /\ cycle' = "periodic"
               /\ restart' = "running"
               /\ outcome' = "running"
               /\ pc' = IntermediateEntry(use_resync)
          ELSE /\ tests_run' = tests_run + 1
               /\ fired' = FALSE
               /\ cycle' = "none"
               /\ restart' = "none"
               /\ outcome' = "returned"
               /\ pc' = "idle"
    /\ run' = [run EXCEPT !.calls = Min(@ + 1, MaxCalls)]
    /\ UNCHANGED <<n, use_resync, random_restarts, nodeState,
                   entry_random_restarts, windowInjects>>
    /\ UNCHANGED otherVars

\* what a step of IntermediateInitialSyncTestCase.run_test leaves alone
IntermediateFrame ==
    /\ UNCHANGED <<n, use_resync, tests_run, random_restarts, nodeState, state,
                   cycle, fired, entry_tests_run, entry_random_restarts,
                   windowInjects, run>>
    /\ UNCHANGED otherVars

\* a restart step of run_test succeeded and `next` follows
IntermediateStepped(next, done) ==
    /\ pc' = next
    /\ restart' = IF done THEN "returned" ELSE restart
    /\ UNCHANGED <<outcome, failures>>

\* a restart step of run_test raised exc
IntermediateRaised(exc) ==
    /\ restart' = "raised"
    /\ Raise(exc)

\* run_test with use_resync: the resync command
intermediate_resync ==
    /\ pc = "i_resync"
    /\ calls' = Append(calls, "resync")
    /\ \E ok \in BOOLEAN :
          IF ok THEN IntermediateStepped("i_wait", TRUE)
                ELSE IntermediateRaised("OperationFailure")
    /\ UNCHANGED <<waited, validation>>
    /\ IntermediateFrame

\* run_test without use_resync: sync_node.teardown()
intermediate_teardown ==
    /\ pc = "i_teardown"
    /\ calls' = Append(calls, "teardown")
    /\ \E ok \in BOOLEAN :
          IF ok THEN IntermediateStepped("i_setup", FALSE)
                ELSE IntermediateRaised("ServerFailure")
    /\ UNCHANGED <<waited, validation>>
    /\ IntermediateFrame

\* sync_node.setup()
intermediate_setup ==
    /\ pc = "i_setup"
    /\ calls' = Append(calls, "setup")
    /\ \E ok \in BOOLEAN :
          IF ok THEN IntermediateStepped("i_await_ready", FALSE)
                ELSE IntermediateRaised("ServerFailure")
    /\ UNCHANGED <<waited, validation>>
    /\ IntermediateFrame

\* sync_node.await_ready()
intermediate_await_ready ==
    /\ pc = "i_await_ready"
    /\ calls' = Append(calls, "await_ready")
    /\ \E ok \in BOOLEAN :
          IF ok THEN IntermediateStepped("i_wait", TRUE)
                ELSE IntermediateRaised("ServerFailure")
    /\ UNCHANGED <<waited, validation>>
    /\ IntermediateFrame

\* the replSetTest waitForMemberState command of the initial sync round
intermediate_wait ==
    /\ pc = "i_wait"
    /\ calls' = Append(calls, "waitForMemberState")
    /\ waited' = IF nodeState = SECONDARY THEN "ok" ELSE "timeout"
    /\ IF AfterWait(waited') = "raise"
          THEN Raise("OperationFailure")
          ELSE /\ pc' = AfterWait(waited')
               /\ UNCHANGED <<outcome, failures>>
    /\ UNCHANGED <<validation, restart>>
    /\ IntermediateFrame

\* self._js_test.run_test() of the initial sync round
intermediate_validation ==
    /\ pc = "i_validate"
    /\ calls' = Append(calls, "validate")
    /\ \E passed \in BOOLEAN :
          IF ~ValidationRaises(passed)
             THEN /\ validation' = IF passed THEN "passed" ELSE "failed"
                  /\ Return
             ELSE /\ validation' = "failed"
                  /\ Raise("ValidatorFailure")
    /\ UNCHANGED <<waited, restart>>
    /\ IntermediateFrame

NextHooks ==
    \/ background_init
    \/ intermediate_init
    \/ after_test
    \/ wait_for_secondary
    \/ get_status
    \/ run_validation
    \/ resync
    \/ teardown
    \/ setup
    \/ await_ready
    \/ intermediate_after_test
    \/ intermediate_resync
    \/ intermediate_teardown
    \/ intermediate_setup
    \/ intermediate_await_ready
    \/ intermediate_wait
    \/ intermediate_validation
    \/ NodeChange

SpecHooks == InitHooks /\ [][NextHooks]_vars

\* ------------------------------------------------------------- notions
Idle == pc = "idle" /\ outcome # "none"
Failed == outcome \notin {"none", "running", "returned"}
ValidatorRuns == Count(calls, "validate")
RestartCycles == Count(calls, "resync") + Count(calls, "teardown")

TypeOK ==
    /\ n \in 1..MaxN
    /\ use_resync \in BOOLEAN
    /\ tests_run \in 0..MaxN
    /\ random_restarts \in 0..2
    /\ pc \in {"idle", "wait", "query", "validate", "resync", "teardown", "setup",
               "await_ready"}
    /\ nodeState \in NodeStates
    /\ state \in NodeStates \cup QueryFailures \cup {"none"}
    /\ waited \in {"none", "ok", "timeout"}
    /\ validation \in {"none", "passed", "failed"}
    /\ cycle \in {"none", "random", "coop"}
    /\ restart \in {"none", "running", "returned", "raised"}
    /\ outcome \in {"none", "running", "returned", "TestFailure", "OperationFailure",
                    "ServerFailure", "ValidatorFailure"}
    /\ failures \in 0..1
    /\ fired \in BOOLEAN
    /\ windowInjects \in 0..MaxWindow

\* ------------------------------------------------------------- claims
RestartCalls == {"resync", "teardown", "setup", "await_ready"}
NotCaughtUp == NodeStates \ {SECONDARY}

\* C1: tests_run is reset to 0 in exactly the invocations whose incremented
\* tests_run is >= n (otherwise it keeps the incremented value), and between
\* invocations it never exceeds n - 1.
C1_ResetExactlyAtThreshold ==
    /\ outcome # "none" =>
          /\ (tests_run = 0) <=> (entry_tests_run + 1 >= n)
          /\ tests_run # 0 => tests_run = entry_tests_run + 1
    /\ pc = "idle" => tests_run <= n - 1

C1_Witness ==
    /\ Idle
    /\ n > 1
    /\ entry_tests_run = n - 1
    /\ tests_run = 0

\* C2 as stated: after the threshold fired, an invocation that did not observe
\* the node in SECONDARY ended with a failure and ran neither the validation
\* nor a restart cycle.
C2_FiredNotSecondaryFails ==
    (Idle /\ fired /\ state # SECONDARY) =>
        /\ Failed
        /\ ValidatorRuns = 0
        /\ RestartCycles = 0

\* C2 amended: after the threshold fired, a failed wait command or a status
\* answer naming a state other than SECONDARY ends the invocation at once with
\* one failure (TestFailure for the status answer) and without validation or
\* restart cycle; a status query that itself fails ends the invocation silently.
C2_FiredAnsweredNotSecondaryFails ==
    /\ (fired /\ state \in NotCaughtUp) =>
          /\ pc = "idle"
          /\ outcome = "TestFailure"
          /\ failures = 1
          /\ ValidatorRuns = 0
          /\ RestartCycles = 0
    /\ (fired /\ waited = "timeout") =>
          /\ pc = "idle"
          /\ Failed
          /\ state = "none"
    /\ (Idle /\ fired /\ state \in QueryFailures) =>
          /\ outcome = "returned"
          /\ ValidatorRuns = 0
          /\ RestartCycles = 0

C2_Witness ==
    /\ fired
    /\ waited = "ok"
    /\ state = "STARTUP2"
    /\ outcome = "TestFailure"

\* C3: random_restarts is 0 or 1 in every reachable state.
C3_RandomRestartsCapped == random_restarts \in {0, 1}

C3_Witness ==
    /\ Idle
    /\ random_restarts = 1
    /\ entry_random_restarts = 1

\* C4: a random restart cycle is begun only in an invocation in which the
\* threshold did not fire, the status query answered a state other than
\* SECONDARY, and random_restarts was below 1; until that cycle returns
\* random_restarts is still below 1.
C4_InjectionOnlyWhenAllowed ==
    cycle = "random" =>
        /\ ~fired
        /\ state \in NotCaughtUp
        /\ entry_random_restarts < 1
        /\ restart = "running" => random_restarts < 1

C4_Witness ==
    /\ cycle = "random"
    /\ restart = "running"
    /\ pc \in RestartCalls

\* C5: between two observations of SECONDARY at most one random restart cycle
\* is begun, also when a step of the restart fails.
C5_OneInjectionPerWindow == windowInjects <= 1

\* C6: the validation runs only in an invocation whose own status query
\* answered SECONDARY, and the restart cycle after it starts only once that
\* validation has passed.
C6_ValidateThenRestart ==
    /\ ValidatorRuns > 0 => state = SECONDARY
    /\ pc = "validate" => state = SECONDARY
    /\ cycle = "coop" =>
          /\ validation = "passed"
          /\ state = SECONDARY
          /\ \A i \in DOMAIN calls :
                calls[i] \in RestartCalls =>
                    \E j \in 1..(i - 1) : calls[j] = "validate"
    /\ validation = "failed" => RestartCycles = 0

C6_Witness ==
    /\ Idle
    /\ cycle = "coop"
    /\ restart = "returned"
    /\ ~fired

\* C7 as stated: threshold fired, wait succeeded, validation passed: exactly
\* one restart cycle, random_restarts = 0 afterwards, no failure.
C7_FiredCaughtUpNoFailure ==
    (Idle /\ fired /\ waited = "ok" /\ validation = "passed") =>
        /\ RestartCycles = 1
        /\ random_restarts = 0
        /\ ~Failed

\* C7 amended: threshold fired, wait succeeded, validation passed: exactly one
\* restart cycle, random_restarts = 0 afterwards, and a failure is raised
\* exactly when a step of that restart cycle failed.
C7_FiredCaughtUpOneCycle ==
    (Idle /\ fired /\ waited = "ok" /\ validation = "passed") =>
        /\ RestartCycles = 1
        /\ cycle = "coop"
        /\ random_restarts = 0
        /\ Failed <=> restart = "raised"
        /\ failures = IF restart = "raised" THEN 1 ELSE 0

C7_Witness ==
    /\ Idle
    /\ fired
    /\ waited = "ok"
    /\ validation = "passed"
    /\ restart = "returned"
    /\ entry_random_restarts = 1

\* C8: when the threshold fired and the wait command timed out, the invocation
\* ended with exactly one failure and ran neither a restart cycle nor the
\* validation.
C8_TimeoutOneFailure ==
    waited = "timeout" =>
        /\ fired
        /\ pc = "idle"
        /\ Failed
        /\ failures = 1
        /\ RestartCycles = 0
        /\ ValidatorRuns = 0

C8_Witness ==
    /\ waited = "timeout"
    /\ outcome = "OperationFailure"
    /\ tests_run = 0

\* C9 as stated: a status query failing as unavailable leaves tests_run and
\* random_restarts as they were and runs neither validation nor restart cycle.
C9_UnavailableIsNoOp ==
    state = "UNAVAILABLE" =>
        /\ tests_run = entry_tests_run
        /\ random_restarts = entry_random_restarts
        /\ ValidatorRuns = 0
        /\ RestartCycles = 0

\* C9 amended: a status query failing as unavailable leaves random_restarts as
\* it was and runs neither validation nor restart cycle; tests_run has been
\* incremented by after_test (and reset to 0 if that reached n).
C9_UnavailableKeepsRestarts ==
    state = "UNAVAILABLE" =>
        /\ random_restarts = entry_random_restarts
        /\ tests_run = IF entry_tests_run + 1 >= n THEN 0 ELSE entry_tests_run + 1
        /\ ValidatorRuns = 0
        /\ RestartCycles = 0
        /\ cycle = "none"

C9_Witness ==
    /\ Idle
    /\ state = "UNAVAILABLE"
    /\ ~fired
    /\ entry_random_restarts = 1

\* C10: a failed status query always ends the invocation without a failure,
\* whether or not the threshold fired.
C10_UnavailableReturnsSilently ==
    state \in QueryFailures =>
        /\ pc = "idle"
        /\ outcome = "returned"
        /\ failures = 0

C10_Witness ==
    /\ state = "UNAVAILABLE"
    /\ fired
    /\ waited = "ok"
    /\ outcome = "returned"

\* ------------------------------------------ claims on both hook variants
Constructed == pc \notin {"new", "ValueError"}
LifecycleCalls == {"teardown", "setup", "await_ready"}
Prefix(s, t) == Len(s) <= Len(t) /\ \A i \in DOMAIN s : s[i] = t[i]
RestartOnly == SelectSeq(calls, LAMBDA c : c \in RestartCalls)

\* C11: in both hooks a restart cycle issues only the commands of the mode
\* given to __init__, each at most once and in order: with use_resync the
\* resync command and no teardown/setup/await_ready, without it teardown, setup
\* and await_ready and no resync; a cycle that returned issued all of them.
C11_CycleFollowsMode ==
    Constructed =>
        /\ use_resync = args.use_resync
        /\ IF use_resync
              THEN Prefix(RestartOnly, <<"resync">>)
              ELSE Prefix(RestartOnly, <<"teardown", "setup", "await_ready">>)
        /\ restart = "returned" =>
              RestartOnly = IF use_resync THEN <<"resync">>
                            ELSE <<"teardown", "setup", "await_ready">>
        /\ cycle # "none" => RestartOnly # <<>> \/ restart = "running"

C11_Witness ==
    /\ variant = "BackgroundInitialSync"
    /\ ~args.use_resync
    /\ cycle = "random"
    /\ restart = "returned"
    /\ RestartOnly = <<"teardown", "setup", "await_ready">>

\* C12 as stated: k < n calls on a fresh hook that each got a state other than
\* SECONDARY began no restart cycle and left tests_run = k; the n-th call
\* reset tests_run and issued the wait.
C12_QuietCallsNoCycle ==
    /\ (run.quiet /\ run.calls < n) =>
          /\ tests_run = run.calls
          /\ ~run.coop
          /\ run.random = 0
    /\ (run.calls = n /\ n < MaxCalls) =>
          /\ fired
          /\ tests_run = 0
          /\ pc # "wait" => calls[1] = "waitForMemberState"

\* C12 amended: k < n calls on a fresh hook that each got a state other than
\* SECONDARY ran no validation and no restart cycle after a validation (a
\* random restart cycle may have begun) and left tests_run = k; the n-th
\* call reset tests_run and issued the wait.
C12_QuietCallsNoValidation ==
    /\ (run.quiet /\ run.calls < n) =>
          /\ tests_run = run.calls
          /\ ~run.coop
          /\ ValidatorRuns = 0
          /\ cycle \in {"none", "random"}
    /\ (run.calls = n /\ n < MaxCalls) =>
          /\ fired
          /\ tests_run = 0
          /\ pc # "wait" => calls[1] = "waitForMemberState"

C12_Witness ==
    /\ Idle
    /\ n = 3
    /\ run.quiet
    /\ run.calls = 2
    /\ tests_run = 2
    /\ run.random = 1

\* C13: IntermediateInitialSync issues commands only in the invocations whose
\* incremented tests_run is >= n, which are exactly every n-th after_test
\* call, and tests_run is 0 from before the first command of such a call.
C13_PeriodicOnlyEveryNth ==
    (variant = "IntermediateInitialSync" /\ Constructed /\ run.calls > 0) =>
        /\ fired <=> entry_tests_run + 1 >= n
        /\ run.calls < MaxCalls => (fired <=> run.calls % n = 0)
        /\ run.calls < MaxCalls => tests_run = run.calls % n
        /\ fired => tests_run = 0
        /\ ~fired => /\ calls = <<>>
                     /\ pc = "idle"
                     /\ outcome = "returned"
                     /\ tests_run = entry_tests_run + 1

C13_Witness ==
    /\ variant = "IntermediateInitialSync"
    /\ Idle
    /\ n = 2
    /\ run.calls = 4
    /\ fired
    /\ validation = "passed"

\* the commands of a full round of IntermediateInitialSyncTestCase.run_test
FullRound(r) ==
    IF r THEN <<"resync", "waitForMemberState", "validate">>
         ELSE <<"teardown", "setup", "await_ready", "waitForMemberState", "validate">>

\* C14: a round of IntermediateInitialSync issues its commands in the order
\* restart cycle, wait for SECONDARY, validation, and the hook never begins a
\* restart cycle outside that sequence (no random restart, no status query).
C14_PeriodicOrder ==
    (variant = "IntermediateInitialSync" /\ Constructed) =>
        /\ Prefix(calls, FullRound(use_resync))
        /\ cycle \in {"none", "periodic"}
        /\ validation = "passed" => calls = FullRound(use_resync)
        /\ run.random = 0

C14_Witness ==
    /\ variant = "IntermediateInitialSync"
    /\ Idle
    /\ ~use_resync
    /\ validation = "passed"
    /\ Len(calls) = 5

\* C15: in IntermediateInitialSync a wait command that timed out, or a failed
\* restart step, ends the invocation with a failure and without validation.
C15_PeriodicTimeoutFails ==
    (variant = "IntermediateInitialSync" /\ (waited = "timeout" \/ restart = "raised")) =>
        /\ pc = "idle"
        /\ Failed
        /\ failures = 1
        /\ ValidatorRuns = 0
        /\ validation = "none"

C15_Witness ==
    /\ variant = "IntermediateInitialSync"
    /\ waited = "timeout"
    /\ restart = "returned"
    /\ outcome = "OperationFailure"

\* C16: __init__ of either hook with a fixture that is no ReplicaSetFixture
\* raises ValueError before any attribute is set; with a ReplicaSetFixture the
\* hook starts with tests_run = 0 (random_restarts = 0 for
\* BackgroundInitialSync) and use_resync and n as given.
C16_ConstructorChecksFixture ==
    /\ (args.fixture # "ReplicaSetFixture" /\ pc # "new") =>
          /\ pc = "ValueError"
          /\ n = "unset" /\ use_resync = "unset"
          /\ tests_run = "unset" /\ random_restarts = "unset"
    /\ (args.fixture = "ReplicaSetFixture" /\ pc # "new") =>
          /\ pc # "ValueError"
          /\ n = args.n
          /\ use_resync = args.use_resync
          /\ run.calls = 0 =>
                /\ tests_run = 0
                /\ variant = "BackgroundInitialSync" => random_restarts = 0

C16_Witness ==
    /\ pc = "ValueError"
    /\ args.fixture = "MasterSlaveFixture"
    /\ variant = "IntermediateInitialSync"

\* C17: in both hooks a failed validation leaves the invocation as a failure,
\* and BackgroundInitialSync runs no restart cycle after it.
C17_ValidatorFailurePropagates ==
    validation = "failed" =>
        /\ pc = "idle"
        /\ outcome = "ValidatorFailure"
        /\ failures = 1
        /\ calls[Len(calls)] = "validate"
        /\ variant = "BackgroundInitialSync" => RestartCycles = 0

C17_Witness ==
    /\ variant = "BackgroundInitialSync"
    /\ validation = "failed"
    /\ outcome = "ValidatorFailure"
    /\ fired

\* C18: a failed administrative command (the wait command, the resync command
\* also of a random restart, the status query failing for another reason than
\* an unavailable node) leaves the invocation as a failure.
C18_CommandFailurePropagates ==
    (Idle /\ \/ waited = "timeout"
             \/ state = "OPFAILED"
             \/ (restart = "raised" /\ use_resync)) => Failed

\* ======================================================================
\* buildscripts/prune_check.py
\* ======================================================================
\* no hook exists: the hook variables keep one value
HooksIdle ==
    /\ variant = "BackgroundInitialSync"
    /\ args = [fixture |-> "ReplicaSetFixture", use_resync |-> FALSE, n |-> 1]
    /\ n = "unset"
    /\ use_resync = "unset"
    /\ tests_run = "unset"
    /\ random_restarts = "unset"
    /\ pc = "new"
    /\ nodeState = "STARTUP"
    /\ state = "none"
    /\ waited = "none"
    /\ validation = "none"
    /\ cycle = "none"
    /\ restart = "none"
    /\ calls = <<>>
    /\ outcome = "none"
    /\ failures = 0
    /\ fired = FALSE
    /\ entry_tests_run = 0
    /\ entry_random_restarts = 0
    /\ windowInjects = 0
    /\ run = FreshRun

\* line 37: strftime(DATE_TIME_STR) keeps whole seconds
Format(t) == t \div TicksPerSecond

\* line 45: strptime(last_prune_time_str, DATE_TIME_STR)
Parse(sec) == sec * TicksPerSecond

PruneDueInclusive(diff, seconds) == diff >= seconds * TicksPerSecond
\* line 70: if diff.total_seconds() > seconds_since_last_prune
PruneDue(diff, seconds) == diff > seconds * TicksPerSecond

\* the file left as it was
StampKept(file, t) == file

\* lines 73-74: write_last_prune_time(datetime.utcnow(), prune_file_path)
StampWritten(file, t) == <<Format(t)>>

InitPrune ==
    /\ HooksIdle
    /\ TsIdle
    /\ TagsIdle
    /\ CleanIdle
    /\ clock = 0
    /\ stampFile \in {<<>>, <<0>>}
    /\ prune_seconds \in 0..MaxPruneSeconds
    /\ prune_pc = "start"
    /\ prune_now = 0
    /\ prune_last = 0
    /\ exit_code = -1
    /\ stampAtStart = <<>>
    /\ last_zero = <<>>
    /\ zero_gap = <<>>

\* main and the head of check_last_prune_time: now = datetime.utcnow()
prune_main ==
    /\ prune_pc \in {"start", "exited"}
    /\ prune_now' = clock
    /\ stampAtStart' = stampFile
    /\ exit_code' = -1
    /\ prune_pc' = "retrieve"
    /\ UNCHANGED <<clock, stampFile, prune_seconds, prune_last, last_zero, zero_gap>>
    /\ UNCHANGED notPruneVars

\* retrieve_last_prune_time
retrieve_last_prune_time ==
    /\ prune_pc = "retrieve"
    /\ IF stampFile # <<>>
          THEN /\ prune_last' = Parse(stampFile[1])
               /\ UNCHANGED stampFile
          ELSE /\ prune_last' = clock
               /\ stampFile' = StampWritten(stampFile, clock)
    /\ prune_pc' = "check"
    /\ UNCHANGED <<clock, prune_seconds, prune_now, exit_code, stampAtStart,
                   last_zero, zero_gap>>
    /\ UNCHANGED notPruneVars

\* the rest of check_last_prune_time: compare, stamp, exit
check_last_prune_time ==
    /\ prune_pc = "check"
    /\ IF PruneDue(prune_now - prune_last, prune_seconds)
          THEN /\ stampFile' = StampWritten(stampFile, clock)
               /\ exit_code' = 0
               /\ last_zero' = <<prune_now>>
               /\ zero_gap' = IF last_zero = <<>> THEN <<>>
                               ELSE <<prune_now - last_zero[1]>>
          ELSE /\ UNCHANGED stampFile
               /\ exit_code' = 1
               /\ UNCHANGED <<last_zero, zero_gap>>
    /\ prune_pc' = "exited"
    /\ UNCHANGED <<clock, prune_seconds, prune_now, prune_last, stampAtStart>>
    /\ UNCHANGED notPruneVars

\* time passes
Tick ==
    /\ clock < MaxClock
    /\ clock' = clock + 1
    /\ UNCHANGED <<stampFile, prune_seconds, prune_pc, prune_now, prune_last,
                   exit_code, stampAtStart, last_zero, zero_gap>>
    /\ UNCHANGED notPruneVars

NextPrune ==
    \/ prune_main
    \/ retrieve_last_prune_time
    \/ check_last_prune_time
    \/ Tick

SpecPrune == InitPrune /\ [][NextPrune]_vars

\* C19: a run exits with 0 exactly when more than prune_seconds passed between
\* the time stamped in the file and the run's `now`, and then the file holds
\* the time of the write; otherwise it exits with 1 and a file that existed
\* is as it was.
C19_ExitZeroIffDue ==
    prune_pc = "exited" =>
        /\ exit_code \in {0, 1}
        /\ exit_code = 0 <=>
              /\ stampAtStart # <<>>
              /\ prune_now - Parse(stampAtStart[1]) > prune_seconds * TicksPerSecond
        /\ exit_code = 0 =>
              /\ stampFile # <<>>
              /\ Parse(stampFile[1]) <= clock
              /\ stampFile[1] >= Format(prune_now)
        /\ (exit_code = 1 /\ stampAtStart # <<>>) => stampFile = stampAtStart

C19_Witness ==
    /\ prune_pc = "exited"
    /\ exit_code = 0
    /\ prune_seconds = 1
    /\ stampAtStart = <<0>>
    /\ stampFile = <<2>>

\* ======================================================================
\* the timestamp API exercised by
\* src/third_party/wiredtiger/test/suite/test_timestamp09.py
\* ======================================================================
\* 0 stands for a timestamp that was never set or is not given in a call
TsCalls ==
    {c \in [oldest : 0..MaxTs, stable : 0..MaxTs, force : BOOLEAN] :
        c.oldest # 0 \/ c.stable # 0}

OldestAfterStableNever(o, s) == FALSE
\* '/oldest timestamp must not be later than stable timestamp/'
OldestAfterStable(o, s) == o # 0 /\ s # 0 /\ o > s

NewOldestAnywhere(cur, given, force) == IF given # 0 THEN given ELSE cur
\* oldest moves forward, or anywhere with force
NewOldest(cur, given, force) ==
    IF given # 0 /\ (cur = 0 \/ force \/ given > cur) THEN given ELSE cur

\* stable moves forward
NewStable(cur, given) ==
    IF given # 0 /\ (cur = 0 \/ given > cur) THEN given ELSE cur

\* the call is refused when applying it would leave oldest after stable
Refused(o, s, c) ==
    OldestAfterStable(NewOldest(o, c.oldest, c.force), NewStable(s, c.stable))

\* conn.set_timestamp('oldest_timestamp=..,stable_timestamp=..[,force]')
SetTimestamp(o, s, c) ==
    IF Refused(o, s, c)
       THEN [oldest |-> o, stable |-> s, result |-> "error"]
       ELSE [oldest |-> NewOldest(o, c.oldest, c.force),
             stable |-> NewStable(s, c.stable),
             result |-> "ok"]

InitTimestamp ==
    /\ HooksIdle
    /\ PruneIdle
    /\ TsIdle
    /\ TagsIdle
    /\ CleanIdle

set_timestamp ==
    \E c \in TsCalls :
        LET r == SetTimestamp(oldest_timestamp, stable_timestamp, c)
        IN  /\ ts_call' = c
            /\ ts_before' = <<oldest_timestamp, stable_timestamp>>
            /\ oldest_timestamp' = r.oldest
            /\ stable_timestamp' = r.stable
            /\ ts_result' = r.result
            /\ ts_read' = 0
            /\ ts_read_result' = "none"
            /\ UNCHANGED notTsVars

ReadRejectedNever(oldest, r) == FALSE
\* '/older than oldest timestamp/'
ReadRejected(oldest, r) == r < oldest

\* session.begin_transaction('read_timestamp=..')
begin_transaction ==
    \E r \in 1..MaxTs :
        /\ ts_read' = r
        /\ ts_read_result' = IF ReadRejected(oldest_timestamp, r) THEN "error" ELSE "ok"
        /\ UNCHANGED <<oldest_timestamp, stable_timestamp, ts_call, ts_result, ts_before>>
        /\ UNCHANGED notTsVars

NextTimestamp ==
    \/ set_timestamp
    \/ begin_transaction

SpecTimestamp == InitTimestamp /\ [][NextTimestamp]_vars

\* the set_timestamp calls of test_timestamp_api in order, each with the
\* result and the oldest and stable timestamps the test expects after it
TestScript ==
    << [oldest |-> 3, stable |-> 0, force |-> FALSE, result |-> "ok",    o |-> 3, s |-> 0],
       [oldest |-> 3, stable |-> 1, force |-> FALSE, result |-> "error", o |-> 3, s |-> 0],
       [oldest |-> 1, stable |-> 0, force |-> FALSE, result |-> "ok",    o |-> 3, s |-> 0],
       [oldest |-> 3, stable |-> 3, force |-> FALSE, result |-> "ok",    o |-> 3, s |-> 3],
       [oldest |-> 0, stable |-> 5, force |-> FALSE, result |-> "ok",    o |-> 3, s |-> 5],
       [oldest |-> 0, stable |-> 4, force |-> FALSE, result |-> "ok",    o |-> 3, s |-> 5],
       [oldest |-> 5, stable |-> 0, force |-> FALSE, result |-> "ok",    o |-> 5, s |-> 5],
       [oldest |-> 6, stable |-> 0, force |-> FALSE, result |-> "error", o |-> 5, s |-> 5],
       [oldest |-> 0, stable |-> 6, force |-> FALSE, result |-> "ok",    o |-> 5, s |-> 6],
       [oldest |-> 7, stable |-> 7, force |-> FALSE, result |-> "ok",    o |-> 7, s |-> 7],
       [oldest |-> 5, stable |-> 0, force |-> TRUE,  result |-> "ok",    o |-> 5, s |-> 7] >>

RECURSIVE ScriptAgrees(_, _, _)
\* the calls from the i-th on, made at oldest o and stable s, go as expected
ScriptAgrees(i, o, s) ==
    IF i > Len(TestScript) THEN TRUE
    ELSE LET e == TestScript[i]
             c == [oldest |-> e.oldest, stable |-> e.stable, force |-> e.force]
             r == SetTimestamp(o, s, c)
         IN  /\ r.result = e.result
             /\ r.oldest = e.o
             /\ r.stable = e.s
             /\ ScriptAgrees(i + 1, r.oldest, r.stable)

\* the last call, had it been applied, would have left oldest after stable
WouldInvert ==
    /\ ts_result # "none"
    /\ LET o == NewOldest(ts_before[1], ts_call.oldest, ts_call.force)
           s == NewStable(ts_before[2], ts_call.stable)
       IN  o # 0 /\ s # 0 /\ o > s

\* C20: once both are set the oldest timestamp is never later than the stable
\* timestamp; a set_timestamp call that would put oldest after stable fails,
\* and a failed call leaves both timestamps as they were. The calls of
\* test_timestamp_api go as the test expects.
C20_OldestNeverAfterStable ==
    /\ (oldest_timestamp # 0 /\ stable_timestamp # 0) =>
           oldest_timestamp <= stable_timestamp
    /\ WouldInvert => ts_result = "error"
    /\ ts_result = "error" => <<oldest_timestamp, stable_timestamp>> = ts_before
    /\ ScriptAgrees(1, 0, 0)

C20_Witness ==
    /\ WouldInvert
    /\ ts_result = "error"
    /\ ts_before = <<5, 5>>
    /\ ts_call = [oldest |-> 6, stable |-> 0, force |-> FALSE]
    /\ oldest_timestamp = 5
    /\ stable_timestamp = 5

\* the begin_transaction calls with a read_timestamp in test_timestamp_api:
\* `after` is the number of set_timestamp calls of TestScript made before
ReadScript ==
    << [after |-> 10, read |-> 6, result |-> "error"],
       [after |-> 10, read |-> 7, result |-> "ok"],
       [after |-> 10, read |-> 8, result |-> "ok"],
       [after |-> 11, read |-> 4, result |-> "error"],
       [after |-> 11, read |-> 6, result |-> "ok"] >>

\* every read of ReadScript is answered as the test expects
ReadsAgree ==
    \A i \in DOMAIN ReadScript :
        LET e == ReadScript[i]
        IN  ReadRejected(TestScript[e.after].o, e.read) <=> e.result = "error"

\* the last set_timestamp call gave an oldest (stable) timestamp earlier than
\* the current one, without force
EarlierOldest ==
    /\ ts_result # "none"
    /\ ts_call.oldest # 0
    /\ ts_call.oldest < ts_before[1]
    /\ ~ts_call.force

EarlierStable ==
    /\ ts_result # "none"
    /\ ts_call.stable # 0
    /\ ts_call.stable < ts_before[2]

\* C21: without force the oldest timestamp never moves backwards, and the
\* stable timestamp never does; a call that gives only an earlier oldest (or
\* only an earlier stable) timestamp succeeds and changes nothing, and an
\* earlier value in any call that succeeds is not applied; with force a call
\* that succeeds sets oldest to the given value, also backwards; a read is
\* rejected exactly when its timestamp is older than the oldest timestamp
\* then in force. The reads of test_timestamp_api go as the test expects.
C21_OnlyForwardUnlessForced ==
    /\ ts_result # "none" =>
          /\ stable_timestamp >= ts_before[2]
          /\ ~ts_call.force => oldest_timestamp >= ts_before[1]
          /\ (EarlierOldest /\ ts_call.stable = 0) =>
                /\ ts_result = "ok"
                /\ <<oldest_timestamp, stable_timestamp>> = ts_before
          /\ (EarlierStable /\ ts_call.oldest = 0) =>
                /\ ts_result = "ok"
                /\ <<oldest_timestamp, stable_timestamp>> = ts_before
          /\ EarlierOldest => oldest_timestamp = ts_before[1]
          /\ EarlierStable => stable_timestamp = ts_before[2]
          /\ (ts_call.force /\ ts_call.oldest # 0 /\ ts_result = "ok") =>
                oldest_timestamp = ts_call.oldest
    /\ ts_read_result # "none" =>
          (ts_read_result = "error" <=> ts_read < oldest_timestamp)
    /\ ReadsAgree

\* oldest was forced from 6 back to 4 and a read at 3 was then rejected
C21_Witness ==
    /\ ts_before = <<6, 6>>
    /\ ts_call = [oldest |-> 4, stable |-> 0, force |-> TRUE]
    /\ ts_result = "ok"
    /\ oldest_timestamp = 4
    /\ stable_timestamp = 6
    /\ ts_read = 3
    /\ ts_read_result = "error"

\* ======================================================================
\* the TagsConfig exercised by buildscripts/tests/ciconfig/test_tags.py
\* ======================================================================
\* tags are numbered in their sort order
Tags == 1..MaxTag

Range(q) == {q[i] : i \in DOMAIN q}

\* the tag lists a file can hold: sorted, no tag twice
TagLists ==
    {q \in UNION {[1..k -> Tags] : k \in 0..MaxTag} :
        \A i, j \in DOMAIN q : i < j => q[i] < q[j]}

\* the tags below t, then t, then the tags above t
Sorted(q, t) ==
    SelectSeq(q, LAMBDA x : x < t) \o <<t>> \o SelectSeq(q, LAMBDA x : x > t)

AddedLast(q, t) == IF t \in Range(q) THEN q ELSE Append(q, t)
\* add_tag: a tag that is not in the list is added at its place in the order
Added(q, t) == IF t \in Range(q) THEN q ELSE Sorted(q, t)

RemovedNothing(q, t) == q
\* remove_tag: the tag is taken out of the list
Removed(q, t) == SelectSeq(q, LAMBDA x : x # t)

\* is_modified
is_modified == tags_conf # tags_loaded

\* the calls remembered in tags_log
LogLen == 2

Logged(op, p, t) ==
    LET e == [op |-> op, pattern |-> p, tag |-> t, before |-> tags_conf,
              was_modified |-> is_modified]
    IN  IF Len(tags_log) < LogLen THEN Append(tags_log, e)
        ELSE Append(Tail(tags_log), e)

\* TagsConfig.from_file, as setUp calls it
InitTags ==
    /\ HooksIdle
    /\ PruneIdle
    /\ TsIdle
    /\ CleanIdle
    /\ tags_loaded \in [TagPatterns -> TagLists]
    /\ tags_conf = tags_loaded
    /\ tags_log = <<>>

add_tag ==
    \E p \in TagPatterns, t \in Tags :
        /\ tags_conf' = [tags_conf EXCEPT ![p] = Added(@, t)]
        /\ tags_log' = Logged("add", p, t)
        /\ UNCHANGED tags_loaded
        /\ UNCHANGED notTagVars

remove_tag ==
    \E p \in TagPatterns, t \in Tags :
        /\ tags_conf' = [tags_conf EXCEPT ![p] = Removed(@, t)]
        /\ tags_log' = Logged("remove", p, t)
        /\ UNCHANGED tags_loaded
        /\ UNCHANGED notTagVars

NextTags ==
    \/ add_tag
    \/ remove_tag

SpecTags == InitTags /\ [][NextTags]_vars

\* the last call, and whether its tag was in the list it names
LastTagCall == tags_log[Len(tags_log)]

LastTagWasPresent ==
    LastTagCall.tag \in Range(LastTagCall.before[LastTagCall.pattern])

\* the last two calls added a tag that was not there and then removed it
AddedThenRemoved ==
    /\ Len(tags_log) > 1
    /\ LET a == tags_log[Len(tags_log) - 1]
       IN  /\ a.op = "add"
           /\ LastTagCall.op = "remove"
           /\ a.pattern = LastTagCall.pattern
           /\ a.tag = LastTagCall.tag
           /\ a.tag \notin Range(a.before[a.pattern])

\* the call before the last one
TagCallBefore == tags_log[Len(tags_log) - 1]

\* C22: is_modified() is true exactly when some pattern's tags are not the
\* tags loaded from the file; adding a tag that is present, or removing one
\* that is absent, leaves an unmodified configuration unmodified; adding a
\* new tag to, or removing a present tag from, an unmodified configuration
\* makes it modified; adding a new tag and then removing it gives back the
\* answer is_modified() gave before, false for an unmodified configuration.
C22_ModifiedIffTagsDiffer ==
    /\ is_modified <=>
          \E p \in TagPatterns : Range(tags_conf[p]) # Range(tags_loaded[p])
    /\ tags_log # <<>> =>
          /\ (LastTagCall.op = "add" /\ LastTagWasPresent) =>
                (is_modified <=> LastTagCall.was_modified)
          /\ (LastTagCall.op = "remove" /\ ~LastTagWasPresent) =>
                (is_modified <=> LastTagCall.was_modified)
          /\ (LastTagCall.op = "add" /\ ~LastTagWasPresent
                /\ ~LastTagCall.was_modified) => is_modified
          /\ (LastTagCall.op = "remove" /\ LastTagWasPresent
                /\ ~LastTagCall.was_modified) => is_modified
    /\ AddedThenRemoved => (is_modified <=> TagCallBefore.was_modified)

\* a new tag was added to the loaded configuration and removed again
C22_Witness ==
    /\ AddedThenRemoved
    /\ ~TagCallBefore.was_modified
    /\ LastTagCall.was_modified
    /\ ~is_modified
    /\ tags_loaded["jstests/core/example.js"] = <<1>>
    /\ LastTagCall.pattern = "jstests/core/example.js"
    /\ LastTagCall.tag = 2

\* ======================================================================
\* further claims on the hooks of initialsync.py
\* ======================================================================
\* the invocation before the current one fired and its wait command failed
AfterFailedWait ==
    /\ outcome # "none"
    /\ run.prev.fired
    /\ run.prev.waited = "timeout"

\* C23: tests_run is 0 from before the wait command is issued, so it is 0
\* when the wait fails; the after_test call that follows a failed wait starts
\* from 0 and, for n > 1, does not take the threshold branch.
C23_ResetBeforeWait ==
    /\ pc = "wait" => tests_run = 0
    /\ waited = "timeout" => (fired /\ tests_run = 0)
    /\ AfterFailedWait =>
          /\ entry_tests_run = 0
          /\ n > 1 => (~fired /\ tests_run = 1)

C23_Witness ==
    /\ Idle
    /\ AfterFailedWait
    /\ n = 2
    /\ ~fired
    /\ tests_run = 1

\* C24: tests_run is never negative; between invocations it is the number of
\* after_test calls since the invocation that last issued the wait (or since
\* __init__); an invocation leaves it 0 if it took the threshold branch and
\* one above its value at entry otherwise, whatever else the invocation did.
C24_CountsCallsSinceWait ==
    /\ tests_run >= 0
    /\ pc = "idle" => tests_run = run.sinceWait
    /\ outcome # "none" =>
          tests_run = IF fired THEN 0 ELSE entry_tests_run + 1
    /\ (outcome # "none" /\ waited # "none") => fired

C24_Witness ==
    /\ Idle
    /\ n = 3
    /\ run.calls = 5
    /\ tests_run = 2
    /\ run.sinceWait = 2
    /\ cycle = "random"

\* C25 as stated: between invocations random_restarts is the number of random
\* restarts begun since the validation last passed.
C25_CountsSinceValidation ==
    pc = "idle" => random_restarts = run.sinceValid

\* C25 amended: between invocations random_restarts is the number of random
\* restart cycles that returned since the status query last answered
\* SECONDARY (or since __init__); the reset precedes the validation, so a
\* validation that fails leaves random_restarts 0.
C25_CountsSinceSecondary ==
    /\ pc = "idle" => random_restarts = run.done
    /\ ValidatorRuns > 0 => random_restarts = 0

C25_Witness ==
    /\ Idle
    /\ validation = "failed"
    /\ entry_random_restarts = 1
    /\ random_restarts = 0
    /\ run.done = 0
    /\ run.sinceValid = 1

\* C26: random_restarts goes back to 0 only in an invocation whose status
\* query answered SECONDARY; an invocation that did not get that answer
\* leaves a value of 1 as it is; a random restart cycle is the first one
\* begun since SECONDARY was last answered.
C26_NoInjectionUntilSecondary ==
    /\ (outcome # "none" /\ entry_random_restarts = 1 /\ random_restarts = 0) =>
          state = SECONDARY
    /\ (Idle /\ entry_random_restarts = 1 /\ state # SECONDARY) =>
          random_restarts = 1
    /\ cycle = "random" => windowInjects = 1

\* C27: without use_resync a restart cycle of either hook calls teardown,
\* setup and await_ready in that order; it has returned only when all three
\* were called; when one of them fails it is the last call of the invocation,
\* which ends with a failure, and what run_test does after the cycle (the
\* wait and the validation of IntermediateInitialSync) comes after all three.
C27_RestartModeOrder ==
    (Constructed /\ ~use_resync) =>
        /\ Prefix(RestartOnly, <<"teardown", "setup", "await_ready">>)
        /\ restart = "returned" =>
              RestartOnly = <<"teardown", "setup", "await_ready">>
        /\ restart = "raised" =>
              /\ pc = "idle"
              /\ Failed
              /\ calls # <<>>
              /\ calls[Len(calls)] \in LifecycleCalls
              /\ calls[Len(calls)] = RestartOnly[Len(RestartOnly)]
        /\ (cycle = "periodic" /\ calls # <<>>
              /\ calls[Len(calls)] \notin LifecycleCalls) =>
              /\ restart = "returned"
              /\ SubSeq(calls, 1, 3) = <<"teardown", "setup", "await_ready">>
        /\ (cycle # "none" /\ Idle /\ outcome = "returned") => restart = "returned"

C27_Witness ==
    /\ Constructed
    /\ ~use_resync
    /\ restart = "raised"
    /\ RestartOnly = <<"teardown", "setup">>
    /\ outcome = "ServerFailure"

\* C28: in both hooks the validation runs only when the status query of the
\* same invocation answered SECONDARY, a random restart cycle begins and the
\* TestFailure is raised only on such an answer naming another state, and
\* that query is issued after the wait command of the invocation.
C28_DecidedOnQuery ==
    Constructed =>
        /\ ValidatorRuns > 0 => state = SECONDARY
        /\ cycle = "random" => state \in NotCaughtUp
        /\ outcome = "TestFailure" => state \in NotCaughtUp
        /\ \A i, j \in DOMAIN calls :
              (calls[i] = "waitForMemberState" /\ calls[j] = "replSetGetStatus")
                  => i < j

\* C29: an invocation of BackgroundInitialSync begins at most one restart
\* cycle: the random one, without validation, or the one after the
\* validation; an invocation that raised the TestFailure began none.
C29_AtMostOneCycle ==
    /\ RestartCycles <= 1
    /\ Len(RestartOnly) <= 3
    /\ cycle = "random" => ValidatorRuns = 0
    /\ cycle = "coop" => state = SECONDARY
    /\ outcome = "TestFailure" => (RestartCycles = 0 /\ cycle = "none")

C29_Witness ==
    /\ Idle
    /\ cycle = "random"
    /\ restart = "returned"
    /\ RestartCycles = 1
    /\ ~use_resync

\* C30: with n = 1 every invocation takes the threshold branch and issues the
\* wait command first, tests_run is always 0, and no random restart cycle
\* ever begins: random_restarts stays 0.
C30_EveryCallWaits ==
    n = 1 =>
        /\ tests_run = 0
        /\ random_restarts = 0
        /\ cycle # "random"
        /\ run.random = 0
        /\ outcome # "none" =>
              /\ fired
              /\ pc # "wait" => calls[1] = "waitForMemberState"

C30_Witness ==
    /\ n = 1
    /\ Idle
    /\ run.calls = 3
    /\ state = "STARTUP2"
    /\ outcome = "TestFailure"
    /\ run.prev.fired

\* ======================================================================
\* a further claim on buildscripts/prune_check.py
\* ======================================================================
\* a run that found no last_prune_time file has exited
ExitedWithoutStamp == prune_pc = "exited" /\ stampAtStart = <<>>

\* such a run wrote the time it read after `now`, in whole seconds, and
\* exited with 1
MissingStampCreated ==
    ExitedWithoutStamp =>
        /\ exit_code = 1
        /\ stampFile # <<>>
        /\ stampFile[1] >= Format(prune_now)
        /\ Parse(stampFile[1]) <= clock

\* the time in the file is never earlier than the one the run started with
StampNeverDecreases ==
    (stampAtStart # <<>> /\ stampFile # <<>>) => stampFile[1] >= stampAtStart[1]

\* C31 as stated: a run that finds no last_prune_time file writes the current
\* time to it and exits with 1; the `now` of two runs that exit with 0 are
\* more than prune_seconds apart; the time in the file never decreases.
C31_ZeroExitsApart ==
    /\ MissingStampCreated
    /\ zero_gap # <<>> => zero_gap[1] > prune_seconds * TicksPerSecond
    /\ StampNeverDecreases

\* C31 amended: the file keeps whole seconds (DATE_TIME_STR), so the second
\* of two runs that exit with 0 measures from a time up to one second before
\* the first one's: their `now` are more than prune_seconds - 1 seconds
\* apart. The other two parts hold as stated.
C31_ZeroExitsNearlyApart ==
    /\ MissingStampCreated
    /\ zero_gap # <<>> => zero_gap[1] > (prune_seconds - 1) * TicksPerSecond
    /\ StampNeverDecreases

\* two runs exited with 0 no more than prune_seconds apart, prune_seconds > 0
C31_Witness ==
    /\ prune_pc = "exited"
    /\ exit_code = 0
    /\ prune_seconds > 0
    /\ zero_gap # <<>>
    /\ zero_gap[1] <= prune_seconds * TicksPerSecond

\* ======================================================================
\* buildscripts/cleanbb.py: cleanup(root, nokill)
\* ======================================================================
\* A command line is modelled by the set of the texts shouldKill searches it
\* for; "mongod --dbpath" stands for a match of the regular expression of
\* line 25 with the root given.
CommandLines ==
    { {"smoke.py", "mongod --dbpath"},
      {"emr.py", "buildbot", "/mongo/"},
      {"java", "xml-data/build-dir"},
      {"mongod --dbpath"},
      {"slave", "/mongo/"},
      {"buildbot"} }

\* shouldKill without the test of line 19
shouldKillJava(c, r) ==
    IF "smoke.py" \in c THEN FALSE
    ELSE IF "emr.py" \in c THEN FALSE
    ELSE IF r # "" /\ "mongod --dbpath" \in c THEN TRUE
    ELSE IF ("buildbot" \in c \/ "slave" \in c) /\ "/mongo/" \in c THEN TRUE
    ELSE IF "xml-data/build-dir" \in c THEN TRUE
    ELSE FALSE

\* lines 11-34
shouldKill(c, r) ==
    IF "smoke.py" \in c THEN FALSE
    ELSE IF "emr.py" \in c THEN FALSE
    ELSE IF "java" \in c THEN FALSE
    ELSE IF r # "" /\ "mongod --dbpath" \in c THEN TRUE
    ELSE IF ("buildbot" \in c \/ "slave" \in c) /\ "/mongo/" \in c THEN TRUE
    ELSE IF "xml-data/build-dir" \in c THEN TRUE
    ELSE FALSE

\* line 68: if killprocs( root=root ) > 0
SecondPass(k) == k > 0

\* line 42: the processes listed, one line each
RECURSIVE getprocesslist(_)
getprocesslist(S) ==
    IF S = {} THEN <<>>
    ELSE LET x == CHOOSE y \in S : \A z \in S : y <= z
         IN  <<x>> \o getprocesslist(S \ {x})

\* one entry of clean_log
Event(o, sig, t) == [op |-> o, signal |-> sig, target |-> t]

InitClean ==
    /\ HooksIdle
    /\ PruneIdle
    /\ TsIdle
    /\ TagsIdle
    /\ clean_pc = "start"
    /\ nokill \in BOOLEAN
    /\ root \in {"", "/data/db/"}
    /\ platform \in {"linux2", "win32"}
    /\ cmdline \in [Pids -> CommandLines]
    /\ alive = Pids
    /\ proc_list = <<>>
    /\ signal = ""
    /\ killed = 0
    /\ root_files = 1..MaxFiles
    /\ retrying = 0
    /\ clean_log = <<>>

\* lines 64-68: cleanup decides on nokill
cleanup ==
    /\ clean_pc = "start"
    /\ clean_pc' = IF nokill THEN "remove" ELSE "killprocs"
    /\ UNCHANGED <<nokill, root, platform, cmdline, alive, proc_list, signal, killed,
                   root_files, retrying, clean_log>>
    /\ UNCHANGED notCleanVars

\* lines 36-49: killprocs starts and lists the processes
killprocs ==
    /\ clean_pc = "killprocs"
    /\ killed' = 0
    /\ proc_list' = IF platform = "win32" THEN <<>> ELSE getprocesslist(alive)
    /\ clean_log' = Append(clean_log, Event("killprocs", signal, 0))
    /\ clean_pc' = "loop"
    /\ UNCHANGED <<nokill, root, platform, cmdline, alive, signal, root_files, retrying>>
    /\ UNCHANGED notCleanVars

\* lines 51-59: one turn of the loop over the processes listed
kill_loop ==
    /\ clean_pc = "loop"
    /\ proc_list # <<>>
    /\ LET x == Head(proc_list)
       IN  IF shouldKill(cmdline[x], root)
           THEN /\ clean_log' = Append(clean_log, Event("kill", signal, x))
                /\ killed' = killed + 1
           ELSE UNCHANGED <<clean_log, killed>>
    /\ proc_list' = Tail(proc_list)
    /\ UNCHANGED <<clean_pc, nokill, root, platform, cmdline, alive, signal,
                   root_files, retrying>>
    /\ UNCHANGED notCleanVars

\* line 61 and lines 68-70: killprocs returns `killed` to cleanup
killprocs_return ==
    /\ clean_pc = "loop"
    /\ proc_list = <<>>
    /\ IF signal = "" /\ SecondPass(killed)
       THEN /\ signal' = "-9"
            /\ clean_pc' = "killprocs"
       ELSE /\ UNCHANGED signal
            /\ clean_pc' = "remove"
    /\ UNCHANGED <<nokill, root, platform, cmdline, alive, proc_list, killed,
                   root_files, retrying, clean_log>>
    /\ UNCHANGED notCleanVars

\* line 69: during the sleep a process that was sent the signal exits
ProcExits ==
    /\ clean_pc = "killprocs"
    /\ signal = "-9"
    /\ \E x \in alive :
          /\ \E i \in 1..Len(clean_log) :
                clean_log[i].op = "kill" /\ clean_log[i].target = x
          /\ alive' = alive \ {x}
    /\ UNCHANGED <<clean_pc, nokill, root, platform, cmdline, proc_list, signal, killed,
                   root_files, retrying, clean_log>>
    /\ UNCHANGED notCleanVars

\* the file os.walk yields next
NextFile == CHOOSE f \in root_files : \A g \in root_files : f <= g

\* lines 74-79: os.remove(foo) succeeds
remove ==
    /\ clean_pc = "remove"
    /\ root_files # {}
    /\ clean_log' = Append(clean_log, Event("remove", "", NextFile))
    /\ root_files' = root_files \ {NextFile}
    /\ UNCHANGED <<clean_pc, nokill, root, platform, cmdline, alive, proc_list, signal,
                   killed, retrying>>
    /\ UNCHANGED notCleanVars

\* lines 79-85: os.remove(foo) raises OSError
remove_fails ==
    /\ clean_pc = "remove"
    /\ root_files # {}
    /\ clean_log' = Append(clean_log, Event("remove", "", NextFile))
    /\ retrying' = NextFile
    /\ clean_pc' = "retry"
    /\ UNCHANGED <<nokill, root, platform, cmdline, alive, proc_list, signal, killed,
                   root_files>>
    /\ UNCHANGED notCleanVars

\* line 86: the second os.remove(foo) succeeds
retry ==
    /\ clean_pc = "retry"
    /\ clean_log' = Append(clean_log, Event("remove", "", retrying))
    /\ root_files' = root_files \ {retrying}
    /\ retrying' = 0
    /\ clean_pc' = "remove"
    /\ UNCHANGED <<nokill, root, platform, cmdline, alive, proc_list, signal, killed>>
    /\ UNCHANGED notCleanVars

\* line 86: the second os.remove(foo) raises, and cleanup with it
retry_raises ==
    /\ clean_pc = "retry"
    /\ clean_log' = Append(clean_log, Event("remove", "", retrying))
    /\ clean_pc' = "raised"
    /\ UNCHANGED <<nokill, root, platform, cmdline, alive, proc_list, signal, killed,
                   root_files, retrying>>
    /\ UNCHANGED notCleanVars

\* line 74: os.walk has no more files
cleanup_return ==
    /\ clean_pc = "remove"
    /\ root_files = {}
    /\ clean_pc' = "done"
    /\ UNCHANGED <<nokill, root, platform, cmdline, alive, proc_list, signal, killed,
                   root_files, retrying, clean_log>>
    /\ UNCHANGED notCleanVars

NextClean ==
    \/ cleanup
    \/ killprocs
    \/ kill_loop
    \/ killprocs_return
    \/ ProcExits
    \/ remove
    \/ remove_fails
    \/ retry
    \/ retry_raises
    \/ cleanup_return

SpecClean == InitClean /\ [][NextClean]_vars

\* ---------------------------------------------------------------- notions
\* the entries of clean_log of one kind
Entries(o) == {i \in 1..Len(clean_log) : clean_log[i].op = o}

\* the kill commands of the pass with the signal given
KillsWith(sig) == {i \in Entries("kill") : clean_log[i].signal = sig}

\* the signals of the killprocs calls, in order
Passes == [i \in 1..Cardinality(Entries("killprocs")) |->
              clean_log[CHOOSE j \in Entries("killprocs") :
                  Cardinality({k \in Entries("killprocs") : k <= j}) = i].signal]

\* a command line shouldKill refuses before it looks at anything else
Protected(c) == "smoke.py" \in c \/ "emr.py" \in c \/ "java" \in c

\* the kill phase of cleanup is over
KillPhaseOver == clean_pc \in {"remove", "retry", "done", "raised"}

\* C32: with nokill no kill command is issued; otherwise one killprocs pass
\* runs with the default signal and a second one, with -9, exactly when the
\* first issued a kill; no pass kills a process whose command line has
\* smoke.py, emr.py or java; files are removed in all cases, and only after
\* the last kill and the last pass.
C32_KillThenRemove ==
    /\ nokill => Entries("kill") = {} /\ Entries("killprocs") = {}
    /\ Len(Passes) <= 2
    /\ Len(Passes) >= 1 => Passes[1] = ""
    /\ Len(Passes) = 2 => Passes[2] = "-9" /\ KillsWith("") # {}
    /\ (KillPhaseOver /\ ~nokill) =>
          /\ Len(Passes) >= 1
          /\ KillsWith("") # {} => Len(Passes) = 2
    /\ \A i \in Entries("kill") :
          /\ ~Protected(cmdline[clean_log[i].target])
          /\ clean_log[i].signal \in {"", "-9"}
    /\ \A i \in Entries("remove") : \A j \in Entries("kill") \cup Entries("killprocs") :
          j < i
    /\ Entries("remove") # {} => KillPhaseOver
    /\ clean_pc \in {"done", "raised"} => Entries("remove") # {}
    /\ clean_pc = "done" => root_files = {}

\* cleanup returned after two passes that both killed a process and spared a
\* protected one whose command line matches a kill rule, and removed files
C32_Witness ==
    /\ clean_pc = "done"
    /\ ~nokill
    /\ KillsWith("") # {}
    /\ KillsWith("-9") # {}
    /\ \E x \in alive : Protected(cmdline[x]) /\ shouldKillJava(cmdline[x], root)
    /\ Entries("remove") # {}

====
